---- MODULE Spec2Model ----
(***************************************************************************)
(* Model of src/client/src/dashboard/CarbonComparisonCard.tsx, which holds *)
(* two fragments:                                                          *)
(*   - the CarbonComparisonCard React component (lines 1-163), and         *)
(*   - the HTTP router of the API (lines 165-444): the three asynchronous  *)
(*     route handlers, the health check and createRouter.                  *)
(*                                                                         *)
(* Router: a handler invocation runs synchronously up to its `await` (the  *)
(* validator is synchronous), is suspended while the application facade    *)
(* works, and is resumed when the facade's promise settles.  Invocations   *)
(* share nothing but the process-wide configuration, so the suspended and  *)
(* the finished invocations are kept as bags of records.                   *)
(*                                                                         *)
(* Specifications: Spec (router), SpecCard (comparison card).              *)
(***************************************************************************)
EXTENDS Integers, Sequences, FiniteSets, Bags, TLC

VARIABLES
  config,       \* process-wide configuration written by setConfig (line 288)
  started,      \* number of handler invocations begun so far
  inflight,     \* bag of invocations suspended at their await
  completed,    \* bag of invocations whose handler has finished
  selection,    \* useState('miles') of the card (line 70)
  data,         \* the card's data prop, as its sum kgSum (line 71)
  lastClicked,  \* history: the unit button clicked last, "none" before any
  view          \* what the card's last render returned (lines 106-158)

routerVars == <<config, started, inflight, completed>>
cardVars == <<selection, data, lastClicked, view>>
vars == <<config, started, inflight, completed, selection, data, lastClicked, view>>

----------------------------------------------------------------------------
(* Bounds *)

\* Handler invocations per behaviour.
MaxRequests == 2
\* Largest kgSum (whole kilograms) the card is given.
MaxKg == 30

----------------------------------------------------------------------------
(* Values of the router *)

\* A string-or-undefined value (a rawRequest field) is a sequence of at most
\* one string: JavaScript's undefined is the empty sequence and the string s
\* is <<s>>, so that no string stands for undefined.
Undefined == <<>>
Str(s) == <<s>>

\* A parsed query-string parameter (req.query.x): absent, one string, or an
\* array of strings (a repeated parameter).
QAbsent == [t |-> "absent", v |-> <<>>]
QStr(s) == [t |-> "string", v |-> <<s>>]
QArr(ss) == [t |-> "array", v |-> ss]

GroupByQueries == {QAbsent, QStr(""), QStr("month"), QArr(<<"day", "month">>)}
TargetQueries == {QAbsent, QStr("aws")}

\* Array.prototype.toString: the elements joined by commas.
RECURSIVE Join(_)
Join(ss) ==
  IF ss = <<>> THEN ""
  ELSE IF Len(ss) = 1 THEN ss[1]
  ELSE ss[1] \o "," \o Join(Tail(ss))

\* req.query.x?.toString()
OptToString(q) ==
  IF q.t = "absent" THEN Undefined
  ELSE IF q.t = "string" THEN Str(q.v[1])
  ELSE Str(Join(q.v))

\* !s for a string-or-undefined s
Falsy(s) == s = Undefined \/ s = Str("")

\* The classes of the values a collaborator may throw.  ERVE, PDE and RRVE
\* are the three classes the router imports from the common package;
\* ERVE_dup is another class object carrying the same name as ERVE (a second
\* copy of the package); "undefined" stands for a thrown undefined or null,
\* which has no constructor.
Classes == {"ERVE", "PDE", "RRVE", "ERVE_dup", "Error", "TypeError", "undefined"}

\* X.prototype.constructor.name / e.constructor.name, for the classes that
\* have a constructor (see HasConstructor).
ClassName(c) ==
  CASE c = "ERVE" -> "EstimationRequestValidationError"
    [] c = "ERVE_dup" -> "EstimationRequestValidationError"
    [] c = "PDE" -> "PartialDataError"
    [] c = "RRVE" -> "RecommendationsRequestValidationError"
    [] c = "Error" -> "Error"
    [] c = "TypeError" -> "TypeError"

\* Reading e.constructor succeeds (it throws a TypeError on undefined/null).
HasConstructor(e) == e.cls # "undefined"

Thrown == {
  [cls |-> "ERVE", msg |-> "m1"],
  [cls |-> "ERVE_dup", msg |-> "m2"],
  [cls |-> "PDE", msg |-> "m2"],
  [cls |-> "RRVE", msg |-> "m1"],
  [cls |-> "Error", msg |-> "m1"],
  [cls |-> "TypeError", msg |-> "m2"],
  [cls |-> "undefined", msg |-> ""] }

NoThrow == [cls |-> "(nothing)", msg |-> ""]

\* Outcome of a call to a collaborator: it returns, or throws/rejects with e.
Returns == [ok |-> TRUE, e |-> NoThrow]
Throws(e) == [ok |-> FALSE, e |-> e]
Outcomes == {Returns} \cup {Throws(e) : e \in Thrown}
\* new App() either returns or throws an Error.
AppOutcomes == {Returns, Throws([cls |-> "Error", msg |-> "m1"])}

Configs == {"undefined", "cfgA"}

\* req.socket.setTimeout(1000 * 60 * 10)
SocketTimeoutMs == 600000

Routes == {"/footprint", "/regions/emissions-factors", "/recommendations", "/healthz"}

\* What the facade resolves with, per route (opaque to the router).
ResultOf(route) ==
  CASE route = "/footprint" -> "estimates"
    [] route = "/regions/emissions-factors" -> "factors"
    [] route = "/recommendations" -> "recommendations"
    [] OTHER -> ""

\* A handler invocation that has just been entered.
NewInvocation(route) ==
  [ route |-> route,
    groupByQuery |-> QAbsent,      \* req.query.groupBy
    targetQuery |-> QAbsent,       \* req.query.awsRecommendationTarget
    socketTimeout |-> 0,           \* 0: left at the server's default
    rawGroupBy |-> Undefined,      \* rawRequest.groupBy
    warned |-> FALSE,              \* apiLogger.warn was called
    validatorArg |-> Undefined,    \* groupBy of the rawRequest the validator got
    facadeCalls |-> 0,             \* calls of the facade method
    validated |-> "no",            \* "no" | "ok" | "threw"
    thrown |-> NoThrow,            \* the value that was thrown, if any
    thrownAt |-> "none",           \* "none" | "app" | "validator" | "facade"
    responses |-> <<>>,            \* responses written to res, in order
    trace |-> <<>>,                \* logger and collaborator calls, in order
    promise |-> "pending" ]        \* the async handler's promise

Log(rq, ev) == [rq EXCEPT !.trace = Append(@, ev)]

\* res.status(s).send(body) / res.json(v): one response written.
Send(rq, status, type, body) ==
  [Log(rq, "respond") EXCEPT
     !.responses = Append(@, [status |-> status, type |-> type, body |-> body])]

Resolve(rq) == [rq EXCEPT !.promise = "resolved"]
Reject(rq) == [rq EXCEPT !.promise = "rejected"]

----------------------------------------------------------------------------
(* Router: the handlers *)

\* const footprintApp = new App(): outside the try block of every handler, so
\* a throwing constructor rejects the handler's promise with nothing written.
NewApp(rq, appOut) ==
  IF appOut.ok THEN Log(rq, "new App")
  ELSE Reject([Log(rq, "new App") EXCEPT !.thrown = appOut.e, !.thrownAt = "app"])

\* Mutant of FootprintEnter: the groupBy default is not applied.
FootprintEnter_NoDefault(q) ==
  Log([NewInvocation("/footprint") EXCEPT
         !.groupByQuery = q,
         !.socketTimeout = SocketTimeoutMs,
         !.rawGroupBy = OptToString(q)], "info")

\* FootprintApiMiddleware up to new App(): the socket timeout, the raw
\* request, the info log and the groupBy default.
FootprintEnter(q) ==
  LET raw == OptToString(q)
      r0 == Log([NewInvocation("/footprint") EXCEPT
                   !.groupByQuery = q,
                   !.socketTimeout = SocketTimeoutMs,
                   !.rawGroupBy = raw], "info")
  IN IF Falsy(raw)
     THEN [Log(r0, "warn") EXCEPT !.warned = TRUE, !.rawGroupBy = Str("day")]
     ELSE r0

\* Mutant of FootprintCatch: a partial-data error is not told apart.
FootprintCatch_NoPartial(rq, e) ==
  LET c == Log([rq EXCEPT !.thrown = e], "error")
  IN IF ~HasConstructor(e) THEN Reject(c)
     ELSE IF ClassName(e.cls) = ClassName("ERVE")
       THEN Resolve(Send(c, 400, "text", e.msg))
     ELSE Resolve(Send(c, 500, "text", "Internal Server Error"))

\* Mutant of FootprintCatch: the catch-all answers with the error's message.
FootprintCatch_Leaky(rq, e) ==
  LET c == Log([rq EXCEPT !.thrown = e], "error")
  IN IF ~HasConstructor(e) THEN Reject(c)
     ELSE IF ClassName(e.cls) = ClassName("ERVE")
       THEN Resolve(Send(c, 400, "text", e.msg))
     ELSE IF ClassName(e.cls) = ClassName("PDE")
       THEN Resolve(Send(c, 416, "text", e.msg))
     ELSE Resolve(Send(c, 500, "text", e.msg))

\* Mutant of FootprintCatch: the classes are compared by identity
\* (e.constructor === EstimationRequestValidationError).
FootprintCatch_ByIdentity(rq, e) ==
  LET c == Log([rq EXCEPT !.thrown = e], "error")
  IN IF ~HasConstructor(e) THEN Reject(c)
     ELSE IF e.cls = "ERVE"
       THEN Resolve(Send(c, 400, "text", e.msg))
     ELSE IF e.cls = "PDE"
       THEN Resolve(Send(c, 416, "text", e.msg))
     ELSE Resolve(Send(c, 500, "text", "Internal Server Error"))

\* The catch block of FootprintApiMiddleware.  e.constructor.name is compared
\* with the imported classes' names; reading e.constructor of undefined/null
\* throws inside the catch block, which rejects the handler's promise.
FootprintCatch(rq, e) ==
  LET c == Log([rq EXCEPT !.thrown = e], "error")
  IN IF ~HasConstructor(e) THEN Reject(c)
     ELSE IF ClassName(e.cls) = ClassName("ERVE")
       THEN Resolve(Send(c, 400, "text", e.msg))
     ELSE IF ClassName(e.cls) = ClassName("PDE")
       THEN Resolve(Send(c, 416, "text", e.msg))
     ELSE Resolve(Send(c, 500, "text", "Internal Server Error"))

\* Mutant of FootprintTry: the facade is called before the validator has
\* returned.
FootprintTry_CallFirst(rq, vOut) ==
  LET f == Log([rq EXCEPT !.facadeCalls = @ + 1], "getCostAndEstimates")
      v == Log([f EXCEPT !.validatorArg = rq.rawGroupBy], "createValidFootprintRequest")
  IN IF vOut.ok
     THEN [v EXCEPT !.validated = "ok"]
     ELSE FootprintCatch([v EXCEPT !.validated = "threw", !.thrownAt = "validator"], vOut.e)

\* The try block of FootprintApiMiddleware up to its await: the validator,
\* then the call of getCostAndEstimates.
FootprintTry(rq, vOut) ==
  LET v == Log([rq EXCEPT !.validatorArg = rq.rawGroupBy], "createValidFootprintRequest")
  IN IF vOut.ok
     THEN Log([v EXCEPT !.validated = "ok", !.facadeCalls = @ + 1], "getCostAndEstimates")
     ELSE FootprintCatch([v EXCEPT !.validated = "threw", !.thrownAt = "validator"], vOut.e)

\* FootprintApiMiddleware from its entry to its await (or its end).
FootprintSync(q, appOut, vOut) ==
  LET a == NewApp(FootprintEnter(q), appOut)
  IN IF appOut.ok THEN FootprintTry(a, vOut) ELSE a

\* FootprintApiMiddleware after its await.
FootprintAfterAwait(rq, fOut) ==
  IF fOut.ok
  THEN Resolve(Send(rq, 200, "json", ResultOf(rq.route)))
  ELSE FootprintCatch([rq EXCEPT !.thrownAt = "facade"], fOut.e)

\* The catch block of EmissionsApiMiddleware: no classification.
EmissionsCatch(rq, e) ==
  Resolve(Send(Log([rq EXCEPT !.thrown = e], "error"), 500, "text", "Internal Server Error"))

\* EmissionsApiMiddleware from its entry to its await (or its end).
EmissionsSync(appOut) ==
  LET a == NewApp(Log(NewInvocation("/regions/emissions-factors"), "info"), appOut)
  IN IF appOut.ok
     THEN Log([a EXCEPT !.facadeCalls = @ + 1], "getEmissionsFactors")
     ELSE a

\* EmissionsApiMiddleware after its await.
EmissionsAfterAwait(rq, fOut) ==
  IF fOut.ok
  THEN Resolve(Send(rq, 200, "json", ResultOf(rq.route)))
  ELSE EmissionsCatch([rq EXCEPT !.thrownAt = "facade"], fOut.e)

\* Mutant of RecommendationsCatch: the footprint route's mapping is used.
RecommendationsCatch_AsFootprint(rq, e) ==
  LET c == Log([rq EXCEPT !.thrown = e], "error")
  IN IF ~HasConstructor(e) THEN Reject(c)
     ELSE IF ClassName(e.cls) = ClassName("RRVE")
       THEN Resolve(Send(c, 400, "text", e.msg))
     ELSE IF ClassName(e.cls) = ClassName("PDE")
       THEN Resolve(Send(c, 416, "text", e.msg))
     ELSE Resolve(Send(c, 500, "text", "Internal Server Error"))

\* The catch block of RecommendationsApiMiddleware.
RecommendationsCatch(rq, e) ==
  LET c == Log([rq EXCEPT !.thrown = e], "error")
  IN IF ~HasConstructor(e) THEN Reject(c)
     ELSE IF ClassName(e.cls) = ClassName("RRVE")
       THEN Resolve(Send(c, 400, "text", e.msg))
     ELSE Resolve(Send(c, 500, "text", "Internal Server Error"))

\* The try block of RecommendationsApiMiddleware up to its await.
RecommendationsTry(rq, vOut) ==
  LET v == Log([rq EXCEPT !.validatorArg = OptToString(rq.targetQuery)],
               "createValidRecommendationsRequest")
  IN IF vOut.ok
     THEN Log([v EXCEPT !.validated = "ok", !.facadeCalls = @ + 1], "getRecommendations")
     ELSE RecommendationsCatch([v EXCEPT !.validated = "threw", !.thrownAt = "validator"], vOut.e)

\* RecommendationsApiMiddleware from its entry to its await (or its end).
RecommendationsSync(q, appOut, vOut) ==
  LET a == NewApp(Log([NewInvocation("/recommendations") EXCEPT !.targetQuery = q], "info"),
                  appOut)
  IN IF appOut.ok THEN RecommendationsTry(a, vOut) ELSE a

\* RecommendationsApiMiddleware after its await.
RecommendationsAfterAwait(rq, fOut) ==
  IF fOut.ok
  THEN Resolve(Send(rq, 200, "json", ResultOf(rq.route)))
  ELSE RecommendationsCatch([rq EXCEPT !.thrownAt = "facade"], fOut.e)

\* Mutant of HealthzHandler: the health check reports a failed request or a
\* missing configuration.
HealthzHandler_Probing(cfg, others) ==
  IF cfg = "undefined" \/ \E o \in others : o.thrownAt # "none"
  THEN [Send(NewInvocation("/healthz"), 500, "text", "Internal Server Error")
          EXCEPT !.promise = "none"]
  ELSE [Send(NewInvocation("/healthz"), 200, "text", "OK") EXCEPT !.promise = "none"]

\* The /healthz handler: synchronous, no App, no logger; it reads nothing.
HealthzHandler(cfg, others) ==
  [Send(NewInvocation("/healthz"), 200, "text", "OK") EXCEPT !.promise = "none"]

----------------------------------------------------------------------------
(* Router: actions *)

Suspended(rq) == rq.promise = "pending"

\* A handler has run to its await or to its end.
Enter(rq) ==
  /\ started < MaxRequests
  /\ started' = started + 1
  /\ IF Suspended(rq)
     THEN inflight' = inflight (+) SetToBag({rq}) /\ UNCHANGED completed
     ELSE completed' = completed (+) SetToBag({rq}) /\ UNCHANGED inflight
  /\ UNCHANGED <<config, selection, data, lastClicked, view>>

\* The facade's promise has settled and the handler has run to its end.
Finish(rq, done) ==
  /\ inflight' = inflight (-) SetToBag({rq})
  /\ completed' = completed (+) SetToBag({done})
  /\ UNCHANGED <<config, started, selection, data, lastClicked, view>>

\* createRouter(config): setConfig(config) overwrites the process-wide value.
createRouter(cfg) ==
  /\ config' = cfg
  /\ UNCHANGED <<started, inflight, completed, selection, data, lastClicked, view>>

FootprintApiMiddleware(q, appOut, vOut) == Enter(FootprintSync(q, appOut, vOut))

FootprintResume(rq, fOut) ==
  /\ rq.route = "/footprint"
  /\ Finish(rq, FootprintAfterAwait(rq, fOut))

EmissionsApiMiddleware(appOut) == Enter(EmissionsSync(appOut))

EmissionsResume(rq, fOut) ==
  /\ rq.route = "/regions/emissions-factors"
  /\ Finish(rq, EmissionsAfterAwait(rq, fOut))

RecommendationsApiMiddleware(q, appOut, vOut) == Enter(RecommendationsSync(q, appOut, vOut))

RecommendationsResume(rq, fOut) ==
  /\ rq.route = "/recommendations"
  /\ Finish(rq, RecommendationsAfterAwait(rq, fOut))

Healthz == Enter(HealthzHandler(config, BagToSet(inflight) \cup BagToSet(completed)))

InitRouter ==
  /\ config \in Configs
  /\ started = 0
  /\ inflight = EmptyBag
  /\ completed = EmptyBag

Next ==
  \/ \E cfg \in Configs : createRouter(cfg)
  \/ \E q \in GroupByQueries, appOut \in AppOutcomes, vOut \in Outcomes :
       FootprintApiMiddleware(q, appOut, vOut)
  \/ \E rq \in BagToSet(inflight), fOut \in Outcomes : FootprintResume(rq, fOut)
  \/ \E appOut \in AppOutcomes : EmissionsApiMiddleware(appOut)
  \/ \E rq \in BagToSet(inflight), fOut \in Outcomes : EmissionsResume(rq, fOut)
  \/ \E q \in TargetQueries, appOut \in AppOutcomes, vOut \in Outcomes :
       RecommendationsApiMiddleware(q, appOut, vOut)
  \/ \E rq \in BagToSet(inflight), fOut \in Outcomes : RecommendationsResume(rq, fOut)
  \/ Healthz

----------------------------------------------------------------------------
(* Comparison card *)

Units == {"miles", "gas", "trees"}

\* The conversion factors are decimal literals with eight fractional digits;
\* they are kept as integers in units of 1/Scale.
Scale == 100000000
\* kgSum * 2.48138958
MilesFactor == 248138958
\* kgSum * 0.1125239
GasFactor == 11252390
\* kgSum * 0.0165352
TreesFactor == 1653520

\* kg * f, exactly, as <<whole part, fractional part in 1/Scale>>.
Times(kg, f) ==
  LET fracProduct == kg * (f % Scale)
  IN << kg * (f \div Scale) + fracProduct \div Scale, fracProduct % Scale >>

\* x.toLocaleString(undefined, { maximumFractionDigits: 1 }): x rounded to
\* one fractional digit, halves away from zero (x >= 0 here); digit grouping
\* is the locale's and is left out.
ToLocaleString1(x) ==
  LET tenths == x[1] * 10 + (x[2] + Scale \div 20) \div (Scale \div 10)
  IN [int |-> tenths \div 10, frac |-> tenths % 10]

milesSum(kgSum) == Times(kgSum, MilesFactor)
gasSum(kgSum) == Times(kgSum, GasFactor)
treesSum(kgSum) == Times(kgSum, TreesFactor)

comparisons(kgSum) ==
  [ gas |-> [ icon |-> "gasIcon", total |-> gasSum(kgSum),
              textOne |-> "CO2 emissions from",
              textTwo |-> "gallons of gasoline consumed" ],
    miles |-> [ icon |-> "milesIcon", total |-> milesSum(kgSum),
                textOne |-> "greenhouse gas emissions from",
                textTwo |-> "miles driven by an average passenger vehicle" ],
    trees |-> [ icon |-> "treesIcon", total |-> treesSum(kgSum),
                textOne |-> "carbon sequestered by",
                textTwo |-> "tree seedlings grown for 10 years" ] ]

\* Mutant of updateButtonColor: the buttons are compared with the default
\* selection instead of the current one.
updateButtonColor_Stale(buttonSelection, sel) ==
  IF buttonSelection = "miles" THEN "primary" ELSE "default"

updateButtonColor(buttonSelection, sel) ==
  IF buttonSelection = sel THEN "primary" ELSE "default"

\* What the component returns for the state `sel` and the prop sum `kgSum`.
Render(sel, kgSum) ==
  [ co2 |-> ToLocaleString1(<<kgSum, 0>>),
    icon |-> comparisons(kgSum)[sel].icon,
    textOne |-> comparisons(kgSum)[sel].textOne,
    comparison |-> ToLocaleString1(comparisons(kgSum)[sel].total),
    textTwo |-> comparisons(kgSum)[sel].textTwo,
    buttons |-> [b \in Units |-> updateButtonColor(b, sel)] ]

\* onClick of a unit button: setSelection, then React renders again.
updateSelection(b) ==
  /\ selection' = b
  /\ lastClicked' = b
  /\ view' = Render(b, data)
  /\ UNCHANGED <<data, config, started, inflight, completed>>

\* The parent passes other data: React renders again, the state is kept.
Rerender(kgSum) ==
  /\ data' = kgSum
  /\ view' = Render(selection, kgSum)
  /\ UNCHANGED <<selection, lastClicked, config, started, inflight, completed>>

InitCard ==
  /\ selection = "miles"
  /\ data = 0
  /\ lastClicked = "none"
  /\ view = Render("miles", 0)

NextCard ==
  \/ \E b \in Units : updateSelection(b)
  \/ \E kgSum \in 0..MaxKg : Rerender(kgSum)

----------------------------------------------------------------------------
(* Specifications *)

Init == InitRouter /\ InitCard

Spec == Init /\ [][Next]_vars

SpecCard == Init /\ [][NextCard]_vars

----------------------------------------------------------------------------
(* Properties *)

Done == BagToSet(completed)
All == BagToSet(inflight) \cup BagToSet(completed)

GenericBody == "Internal Server Error"

\* The handler caught e in its try block (thrown by the validator or by the
\* facade) and e is an object, so that it has a constructor.
CaughtError(rq) ==
  /\ rq.thrownAt \in {"validator", "facade"}
  /\ HasConstructor(rq.thrown)

\* The handler's try block ran to its end without a throw.
Succeeded(rq) == rq.validated = "ok" /\ rq.thrownAt = "none" /\ ~Suspended(rq)

\* e is an error of the class called n.
Named(e, n) == ClassName(e.cls) = n

\* Position of the first ev in a trace, 0 when there is none.
Pos(trace, ev) ==
  IF \E i \in 1..Len(trace) : trace[i] = ev
  THEN CHOOSE i \in 1..Len(trace) :
         trace[i] = ev /\ \A j \in 1..(i - 1) : trace[j] # ev
  ELSE 0

Count(trace, ev) == Cardinality({i \in 1..Len(trace) : trace[i] = ev})

Response(status, type, body) == [status |-> status, type |-> type, body |-> body]

\* C1: a finished /footprint request is answered 200 with the estimate as
\* JSON when validation and estimation succeed, 400 with the error's message
\* when an EstimationRequestValidationError was thrown, 416 with the error's
\* message when a PartialDataError was thrown, 500 for every other thrown
\* error, and with no other status.
C1_FootprintStatus ==
  \A rq \in Done : rq.route = "/footprint" =>
    /\ \A i \in 1..Len(rq.responses) : rq.responses[i].status \in {200, 400, 416, 500}
    /\ Succeeded(rq) => rq.responses = <<Response(200, "json", "estimates")>>
    /\ CaughtError(rq) =>
         /\ Len(rq.responses) = 1
         /\ Named(rq.thrown, "EstimationRequestValidationError") =>
              rq.responses[1] = Response(400, "text", rq.thrown.msg)
         /\ Named(rq.thrown, "PartialDataError") =>
              rq.responses[1] = Response(416, "text", rq.thrown.msg)
         /\ (~Named(rq.thrown, "EstimationRequestValidationError")
               /\ ~Named(rq.thrown, "PartialDataError")) =>
              rq.responses[1].status = 500

\* C1 witness: a partial-data failure answered 416 and a validation failure
\* answered 400, both on /footprint.
C1_Witness ==
  \E a, b \in Done :
    /\ a.route = "/footprint" /\ a.thrown.cls = "PDE" /\ a.thrownAt = "facade"
    /\ a.responses = <<Response(416, "text", "m2")>>
    /\ b.route = "/footprint" /\ b.thrown.cls = "ERVE" /\ b.thrownAt = "validator"
    /\ b.responses = <<Response(400, "text", "m1")>>

\* An error that is neither a validation error nor a partial-data error.
Unclassified(e) ==
  /\ ~Named(e, "EstimationRequestValidationError")
  /\ ~Named(e, "RecommendationsRequestValidationError")
  /\ ~Named(e, "PartialDataError")

\* C2: any two errors that are neither validation errors nor partial-data
\* errors, whatever their messages and types, get the same response on
\* /footprint, /recommendations and /regions/emissions-factors: status 500
\* with the body 'Internal Server Error', in which the message does not show.
C2_Masked ==
  \A a, b \in Done :
    ( /\ CaughtError(a) /\ Unclassified(a.thrown)
      /\ CaughtError(b) /\ Unclassified(b.thrown) ) =>
    /\ a.responses = b.responses
    /\ a.responses = <<Response(500, "text", GenericBody)>>

\* C2 witness: two errors of different types and messages, on different
\* routes, both masked.
C2_Witness ==
  \E a, b \in Done :
    /\ a.route = "/footprint" /\ b.route = "/recommendations"
    /\ a.thrown = [cls |-> "Error", msg |-> "m1"]
    /\ b.thrown = [cls |-> "TypeError", msg |-> "m2"]
    /\ a.responses = b.responses

\* C3: a finished /recommendations request is answered 200 with the
\* recommendations as JSON on success, 400 with the error's message when a
\* RecommendationsRequestValidationError was thrown and 500 for every other
\* thrown error, a PartialDataError or EstimationRequestValidationError
\* included; it is never answered 416.
C3_RecommendationsStatus ==
  \A rq \in Done : rq.route = "/recommendations" =>
    /\ \A i \in 1..Len(rq.responses) : rq.responses[i].status \in {200, 400, 500}
    /\ Succeeded(rq) => rq.responses = <<Response(200, "json", "recommendations")>>
    /\ CaughtError(rq) =>
         /\ Len(rq.responses) = 1
         /\ Named(rq.thrown, "RecommendationsRequestValidationError") =>
              rq.responses[1] = Response(400, "text", rq.thrown.msg)
         /\ ~Named(rq.thrown, "RecommendationsRequestValidationError") =>
              rq.responses[1].status = 500

\* C3 witness: a PartialDataError and an EstimationRequestValidationError
\* thrown on /recommendations, both answered 500.
C3_Witness ==
  \E a, b \in Done :
    /\ a.route = "/recommendations" /\ a.thrown.cls = "PDE"
    /\ a.responses = <<Response(500, "text", GenericBody)>>
    /\ b.route = "/recommendations" /\ b.thrown.cls = "ERVE"
    /\ b.responses = <<Response(500, "text", GenericBody)>>

\* C4: on /footprint an absent groupBy is replaced by "day" with a warning
\* logged before the validator is called, so the validator never gets an
\* absent groupBy and the request is answered 200 when validation and
\* estimation succeed; a groupBy supplied with a non-empty value reaches the
\* validator as that value (a repeated parameter as its string form) and no
\* warning is logged.
C4_GroupByDefault ==
  \A rq \in All : (rq.route = "/footprint" /\ rq.validated # "no") =>
    /\ ~Falsy(rq.validatorArg)
    /\ rq.groupByQuery = QAbsent =>
         /\ rq.validatorArg = Str("day")
         /\ 0 < Pos(rq.trace, "warn")
         /\ Pos(rq.trace, "warn") < Pos(rq.trace, "createValidFootprintRequest")
         /\ Succeeded(rq) => rq.responses = <<Response(200, "json", "estimates")>>
    /\ (rq.groupByQuery.t = "string" /\ rq.groupByQuery.v # <<"">>) =>
         /\ rq.validatorArg = Str(rq.groupByQuery.v[1])
         /\ Pos(rq.trace, "warn") = 0
    /\ (rq.groupByQuery.t = "array" /\ Join(rq.groupByQuery.v) # "") =>
         /\ rq.validatorArg = Str(Join(rq.groupByQuery.v))
         /\ Pos(rq.trace, "warn") = 0

\* C4 witness: a request without groupBy answered 200, and one with
\* groupBy=month that reached the validator.
C4_Witness ==
  \E a, b \in Done :
    /\ a.route = "/footprint" /\ a.groupByQuery = QAbsent
    /\ a.validatorArg = Str("day") /\ a.warned
    /\ a.responses = <<Response(200, "json", "estimates")>>
    /\ b.route = "/footprint" /\ b.groupByQuery = QStr("month")
    /\ b.validatorArg = Str("month") /\ b.validated = "ok"

\* C5: /healthz is answered 200 'OK' whatever the configuration, whatever the
\* other requests did and whether or not the facade failed, and its handler
\* never constructs or calls the facade.
C5_Healthz ==
  \A rq \in Done : rq.route = "/healthz" =>
    /\ rq.responses = <<Response(200, "text", "OK")>>
    /\ rq.facadeCalls = 0
    /\ Pos(rq.trace, "new App") = 0

\* C5 witness: a health check answered after a facade failure on another
\* route.
C5_Witness ==
  \E h, f \in Done :
    /\ h.route = "/healthz" /\ h.responses = <<Response(200, "text", "OK")>>
    /\ f.route = "/regions/emissions-factors" /\ f.thrownAt = "facade"

\* The entry of the comparison table a unit stands for.
ExpectedIcon(u) ==
  CASE u = "miles" -> "milesIcon" [] u = "gas" -> "gasIcon" [] u = "trees" -> "treesIcon"

ExpectedFactor(u) ==
  CASE u = "miles" -> MilesFactor [] u = "gas" -> GasFactor [] u = "trees" -> TreesFactor

\* C6: after any clicks on Miles, Gas and Trees the selection is one of the
\* three units, "miles" before any click and the unit last clicked after one;
\* exactly one button is rendered 'primary', that unit's; and the icon, the
\* texts and the value shown are those of that unit's comparison entry.
C6_Selection ==
  /\ selection \in Units
  /\ selection = (IF lastClicked = "none" THEN "miles" ELSE lastClicked)
  /\ {b \in Units : view.buttons[b] = "primary"} = {selection}
  /\ \A b \in Units \ {selection} : view.buttons[b] = "default"
  /\ view.icon = ExpectedIcon(selection)
  /\ view.textOne = comparisons(data)[selection].textOne
  /\ view.textTwo = comparisons(data)[selection].textTwo
  /\ view.comparison = ToLocaleString1(Times(data, ExpectedFactor(selection)))

\* C6 witness: Trees was clicked and the card shows the trees entry of a
\* non-zero sum.
C6_Witness ==
  /\ lastClicked = "trees" /\ data = 30
  /\ view.buttons["trees"] = "primary" /\ view.icon = "treesIcon"
  /\ view.comparison = [int |-> 0, frac |-> 5]

\* C7: every finished handler invocation has written exactly one response.
C7_ExactlyOneResponse ==
  \A rq \in Done : Len(rq.responses) = 1

\* C8: the promise of every finished /footprint, /regions/emissions-factors
\* and /recommendations handler is resolved, never rejected.
C8_NeverRejects ==
  \A rq \in Done : rq.route # "/healthz" => rq.promise = "resolved"

\* C9 as stated: 400 (416) is answered exactly when the caught error's
\* constructor is the known class itself.
C9_ByIdentity ==
  \A rq \in Done : CaughtError(rq) =>
    /\ rq.route = "/footprint" =>
         /\ rq.responses[1].status = 400 <=> rq.thrown.cls = "ERVE"
         /\ rq.responses[1].status = 416 <=> rq.thrown.cls = "PDE"
    /\ rq.route = "/recommendations" =>
         rq.responses[1].status = 400 <=> rq.thrown.cls = "RRVE"

\* C9 as amended: 400 (416 on /footprint) is answered exactly when the name
\* of the caught error's constructor is the name of the known class, so that
\* another class of the same name is answered like the known class; an error
\* whose constructor has any other name is answered with the generic 500.
C9_ByName ==
  \A rq \in Done : CaughtError(rq) =>
    /\ rq.route = "/footprint" =>
         /\ rq.responses[1].status = 400 <=> ClassName(rq.thrown.cls) = ClassName("ERVE")
         /\ rq.responses[1].status = 416 <=> ClassName(rq.thrown.cls) = ClassName("PDE")
         /\ rq.thrown.cls = "ERVE_dup" => rq.responses[1].status = 400
         /\ rq.responses[1].status \notin {400, 416} =>
              rq.responses[1] = Response(500, "text", GenericBody)
    /\ rq.route = "/recommendations" =>
         /\ rq.responses[1].status = 400 <=> ClassName(rq.thrown.cls) = ClassName("RRVE")
         /\ rq.responses[1].status # 400 =>
              rq.responses[1] = Response(500, "text", GenericBody)

\* C9 witness: an error of another class named like the validation error,
\* answered 400 on /footprint.
C9_Witness ==
  \E rq \in Done :
    /\ rq.route = "/footprint" /\ rq.thrown.cls = "ERVE_dup"
    /\ rq.responses = <<Response(400, "text", "m2")>>

FacadeMethod(route) ==
  CASE route = "/footprint" -> "getCostAndEstimates"
    [] route = "/recommendations" -> "getRecommendations"
    [] OTHER -> "getEmissionsFactors"

Validator(route) ==
  CASE route = "/footprint" -> "createValidFootprintRequest"
    [] OTHER -> "createValidRecommendationsRequest"

\* C10: on /footprint and /recommendations the facade method is called at most
\* once per request and only after the validator has returned; when the
\* validator throws it is not called at all, and a failed call is not made
\* again.
C10_FacadeOnce ==
  \A rq \in All : rq.route \in {"/footprint", "/recommendations"} =>
    /\ Count(rq.trace, FacadeMethod(rq.route)) <= 1
    /\ Count(rq.trace, FacadeMethod(rq.route)) = rq.facadeCalls
    /\ rq.facadeCalls = 1 =>
         /\ rq.validated = "ok"
         /\ 0 < Pos(rq.trace, Validator(rq.route))
         /\ Pos(rq.trace, Validator(rq.route)) < Pos(rq.trace, FacadeMethod(rq.route))
    /\ rq.validated = "threw" => rq.facadeCalls = 0
    /\ rq.thrownAt = "facade" => rq.facadeCalls = 1

\* C10 witness: a request whose validator threw, without a facade call, and
\* a request whose single facade call failed.
C10_Witness ==
  \E a, b \in Done :
    /\ a.route = "/footprint" /\ a.validated = "threw" /\ a.facadeCalls = 0
    /\ b.route = "/recommendations" /\ b.thrownAt = "facade" /\ b.facadeCalls = 1

====
